---------------------------- MODULE Spec2Model ----------------------------
(***************************************************************************)
(* Model of src/streamlit_app.py, the "Tactic Classifier Evaluator".       *)
(*                                                                         *)
(* The app is a Streamlit script: every interaction of the user with a     *)
(* widget re-runs the whole script top to bottom with the widgets' current *)
(* values.  The state of a session is therefore the widgets' values plus   *)
(* what the latest run of the script produced.  Each action below is one   *)
(* interaction followed by the complete script run it triggers.            *)
(*                                                                         *)
(* Data representation                                                     *)
(*   - a CSV cell is NaN (empty field) or a string; a string is a sequence *)
(*     of pieces of text.  In a text cell the piece " " is a whitespace    *)
(*     character and every other piece is a run of non-blank characters;   *)
(*     in a label cell the pieces are the lexemes ast.literal_eval reads.  *)
(*   - a Python str value is a sequence of pieces too (PyStr), so that     *)
(*     equality is exact string equality and `x in s` is a substring test. *)
(*   - Python floats are modelled as exact fractions [n, d] in lowest      *)
(*     terms, plus NaN and Inf for 0/0 and x/0 on pandas columns.          *)
(***************************************************************************)
EXTENDS Integers, Sequences, FiniteSets, TLC

(***************************************************************************)
(* Bounds of the model.                                                    *)
(***************************************************************************)
\* rows of an uploaded predictions table
MaxRows == 2
\* number of tactics the user has selected in the multiselect at once
MaxSel == 2

(***************************************************************************)
(* DEFAULT_TACTICS, streamlit_app.py lines 22-35.                          *)
(***************************************************************************)
TacticOptions ==
    << "urgency_marketing", "social_proof", "discount_marketing",
       "Classic_Timeless_Luxury_style" >>

DEFAULT_TACTICS ==
    [ urgency_marketing |-> <<"now", "today", "limited", "hurry", "exclusive">>,
      social_proof |-> <<"bestseller", "popular", "trending", "recommended">>,
      discount_marketing |-> <<"sale", "discount", "deal", "free", "offer">>,
      Classic_Timeless_Luxury_style |->
        << "elegance", "heritage", "sophistication", "refined", "timeless", "grace",
           "legacy", "opulence", "bespoke", "tailored", "understated", "prestige",
           "quality", "craftsmanship", "heirloom", "classic", "tradition", "iconic",
           "enduring", "rich", "authentic", "luxury", "fine", "pure", "exclusive",
           "elite", "mastery", "immaculate", "flawless", "distinction", "noble",
           "chic", "serene", "clean", "minimal", "poised", "balanced", "eternal",
           "neutral", "subtle", "grand", "timelessness", "tasteful", "quiet", "sublime" >> ]

Range(s) == { s[i] : i \in DOMAIN s }

Tactics == Range(TacticOptions)

(***************************************************************************)
(* Python values.                                                          *)
(***************************************************************************)
None == [k |-> "None"]
NaN == [k |-> "nan"]
Inf == [k |-> "inf"]
PyStr(pieces) == [k |-> "str", s |-> pieces]
PyInt(i) == [k |-> "int", n |-> i]
PyList(elems) == [k |-> "list", v |-> elems]
\* a raised exception, by the name of its class
Raise(name) == [k |-> "raise", exc |-> name]
IsRaise(x) == x.k = "raise"

\* the str of a tactic name: one piece
Name(t) == PyStr(<<t>>)

(***************************************************************************)
(* Floats as exact fractions.                                              *)
(***************************************************************************)
RECURSIVE GCD(_, _)
GCD(a, b) == IF b = 0 THEN a ELSE GCD(b, a % b)

Frac(a, b) == LET g == GCD(a, b) IN [k |-> "num", n |-> a \div g, d |-> b \div g]
Zero == [k |-> "num", n |-> 0, d |-> 1]
IsNum(x) == x.k = "num"
\* x / y on Python floats (y # 0 is the caller's guard)
FDiv(x, y) == Frac(x.n * y.d, x.d * y.n)
FMul(x, y) == Frac(x.n * y.n, x.d * y.d)
FAdd(x, y) == Frac(x.n * y.d + y.n * x.d, x.d * y.d)
FLe(x, y) == x.n * y.d <= y.n * x.d
\* truthiness of a float: nonzero
Truthy(x) == x.n # 0

(***************************************************************************)
(* ast.literal_eval, as parse_list_cell calls it (line 133).               *)
(*                                                                         *)
(* A string is read as its sequence of lexemes:                            *)
(*    [t |-> "["], [t |-> "]"], [t |-> ","]      punctuation               *)
(*    [t |-> "str", s |-> pieces]                a quoted string literal   *)
(*    [t |-> "num", n |-> i]                     an integer literal        *)
(*    [t |-> "name", s |-> pieces]               a bare identifier         *)
(*    [t |-> "op"]                               a binary operator         *)
(* The literals covered are strings, integers and flat lists of them;      *)
(* everything else raises, as literal_eval does on a non-literal           *)
(* (ValueError) or on text that is no expression (SyntaxError).            *)
(***************************************************************************)
LBr == [t |-> "["]
RBr == [t |-> "]"]
Comma == [t |-> ","]
Op == [t |-> "op"]
StrLit(x) == [t |-> "str", s |-> <<x>>]
NumLit(i) == [t |-> "num", n |-> i]
Ident(x) == [t |-> "name", s |-> <<x>>]

IsAtom(lx) == lx.t \in {"str", "num", "name"}

\* the value of one atom; a bare name is no literal
AtomValue(lx) ==
    CASE lx.t = "str" -> PyStr(lx.s)
      [] lx.t = "num" -> PyInt(lx.n)
      [] OTHER -> Raise("ValueError")

\* the items of a list display from lexeme i on; want = an item may start here
RECURSIVE ListItems(_, _, _, _)
ListItems(lex, i, acc, want) ==
    IF i > Len(lex) THEN Raise("SyntaxError")
    ELSE IF lex[i] = RBr
         THEN IF i = Len(lex) THEN acc ELSE Raise("SyntaxError")
    ELSE IF want
         THEN IF IsAtom(lex[i])
              THEN LET rest == ListItems(lex, i + 1, acc, FALSE)
                       v == AtomValue(lex[i])
                   IN  IF IsRaise(rest) THEN rest
                       ELSE IF IsRaise(v) THEN v
                       ELSE PyList(<<v>> \o rest.v)
              ELSE Raise("SyntaxError")
    ELSE IF lex[i] = Comma THEN ListItems(lex, i + 1, acc, TRUE)
    ELSE Raise("SyntaxError")

AstLiteralEval(node) ==
    IF node.k # "str" THEN Raise("ValueError")
    ELSE LET lex == node.s IN
         IF Len(lex) = 0 THEN Raise("SyntaxError")
         ELSE IF lex[1] = LBr THEN ListItems(lex, 2, PyList(<<>>), TRUE)
         ELSE IF Len(lex) = 1 /\ IsAtom(lex[1]) THEN AtomValue(lex[1])
         ELSE IF Len(lex) = 3 /\ IsAtom(lex[1]) /\ lex[2] = Op /\ IsAtom(lex[3])
              THEN Raise("ValueError")
         ELSE Raise("SyntaxError")

(***************************************************************************)
(* parse_list_cell, lines 129-135.                                         *)
(***************************************************************************)
parse_list_cell(cell) ==
    IF cell.k = "list" THEN cell
    ELSE LET r == AstLiteralEval(cell)
         IN  IF IsRaise(r) THEN PyList(<<>>) ELSE r

(***************************************************************************)
(* Python's `tactic in lst` (lines 177, 180): an element test on a list, a *)
(* substring test on a str, a TypeError on a value that is no container.   *)
(***************************************************************************)
InRaises(lst) == lst.k \notin {"list", "str"}

IsSubstring(p, s) ==
    \E i \in 1..(Len(s) - Len(p) + 1) : SubSeq(s, i, i + Len(p) - 1) = p

In(tactic, lst) ==
    CASE lst.k = "list" -> \E i \in DOMAIN lst.v : lst.v[i] = Name(tactic)
      [] lst.k = "str" -> IsSubstring(<<tactic>>, lst.s)
      [] OTHER -> FALSE

(***************************************************************************)
(* str.split() (lines 148, 150): the maximal runs of non-blank pieces.     *)
(* A token is the sequence of the pieces of its run.                       *)
(***************************************************************************)
SP == " "

RECURSIVE SplitFrom(_, _, _)
SplitFrom(s, i, cur) ==
    IF i > Len(s) THEN (IF cur = <<>> THEN <<>> ELSE <<cur>>)
    ELSE IF s[i] = SP
         THEN (IF cur = <<>> THEN <<>> ELSE <<cur>>) \o SplitFrom(s, i + 1, <<>>)
         ELSE SplitFrom(s, i + 1, Append(cur, s[i]))

Split(txt) == SplitFrom(txt.s, 1, <<>>)

\* set(DEFAULT_TACTICS[tactic]), line 146: the trigger words as tokens
key_terms(tactic) == { <<w>> : w \in Range(DEFAULT_TACTICS[tactic]) }

\* sum(1 for w in txt.split() if w in key_terms), line 150
TacticWords(txt, tactic) ==
    LET toks == Split(txt)
    IN  Cardinality({ i \in DOMAIN toks : toks[i] \in key_terms(tactic) })

(***************************************************************************)
(* Data frames: a function from column names to columns, a column being    *)
(* the sequence of its cells.  The columns the user maps with the          *)
(* selectboxes of lines 63-73, 79-82 and 93-96 are taken as mapped: the    *)
(* text column is "text", the predicted-categories column "pred", the      *)
(* true-categories column "gt" in the predictions file and "label" in a    *)
(* separate ground-truth file.  The identifier column is "id" when one is  *)
(* designated.  The scratch columns __x__ of the script are named x.       *)
(***************************************************************************)
Frame(df) == [k |-> "frame", cols |-> df]

\* df[c] = col
SetCol(df, c, col) ==
    [x \in (DOMAIN df) \cup {c} |-> IF x = c THEN col ELSE df[x]]

\* pd.read_csv of a file whose records are rows
ReadCsv(rows) ==
    [c \in {"id", "text", "pred", "gt"} |-> [i \in DOMAIN rows |-> rows[i][c]]]

ReadGtCsv(rows) ==
    [c \in {"id", "label"} |-> [i \in DOMAIN rows |-> rows[i][c]]]

(***************************************************************************)
(* df_pred.merge(df_gt[[id_col, gt_col]], on=id_col, how="left",           *)
(* validate="m:1"), lines 98-103.  pandas raises MergeError when the keys  *)
(* of the right frame are not unique, and matches a missing key with a     *)
(* missing key.                                                            *)
(***************************************************************************)
\* the merge without validate="m:1": the keys of the right frame unchecked
KeysUniqueUnchecked(keys) == TRUE

KeysUnique(keys) == \A i, j \in DOMAIN keys : keys[i] = keys[j] => i = j

Lookup(right, key) ==
    IF \E j \in DOMAIN right["id"] : right["id"][j] = key
    THEN right["label"][CHOOSE j \in DOMAIN right["id"] : right["id"][j] = key]
    ELSE NaN

Merge(left, right) ==
    IF ~KeysUnique(right["id"]) THEN Raise("MergeError")
    ELSE Frame(SetCol(left, "label",
                      [i \in DOMAIN left["id"] |-> Lookup(right, left["id"][i])]))

(***************************************************************************)
(* Messages the script shows with st.info / st.error.                      *)
(***************************************************************************)
MsgUpload == "Upload the predictions CSV from the first app to begin."
MsgCannotMerge == "Cannot merge ground-truth file without an ID column."
MsgSelectTactic == "Please select at least one tactic."
MsgNoId == "No ID column selected -> skipping ID-level aggregation."
MsgNoGt == "Ground-truth labels were not provided; precision/recall/F1 cannot be computed."

NoFile == [k |-> "None"]
File(rows) == [k |-> "file", rows |-> rows]

(***************************************************************************)
(* The ground-truth expander, lines 76-108: the frame the evaluation works *)
(* on, the ground-truth column (None when there is none) and the messages. *)
(***************************************************************************)
\* the expander without the branch of lines 104-106: a separate file without
\* identifier column is dropped silently
GroundTruthNoElif(df, id_col, has_gt, gt_file) ==
    IF has_gt
    THEN [k |-> "ok", df |-> df, gt_col |-> "gt", msgs |-> {}]
    ELSE IF gt_file # NoFile /\ id_col # "none"
         THEN LET m == Merge(df, ReadGtCsv(gt_file.rows))
              IN  IF IsRaise(m) THEN m
                  ELSE [k |-> "ok", df |-> m.cols, gt_col |-> "label", msgs |-> {}]
    ELSE [k |-> "ok", df |-> df, gt_col |-> "none", msgs |-> {}]

GroundTruth(df, id_col, has_gt, gt_file) ==
    IF has_gt
    THEN [k |-> "ok", df |-> df, gt_col |-> "gt", msgs |-> {}]
    ELSE IF gt_file # NoFile /\ id_col # "none"
         THEN LET m == Merge(df, ReadGtCsv(gt_file.rows))
              IN  IF IsRaise(m) THEN m
                  ELSE [k |-> "ok", df |-> m.cols, gt_col |-> "label", msgs |-> {}]
    ELSE IF gt_file # NoFile /\ id_col = "none"
         THEN [k |-> "ok", df |-> df, gt_col |-> "none", msgs |-> {MsgCannotMerge}]
    ELSE [k |-> "ok", df |-> df, gt_col |-> "none", msgs |-> {}]

(***************************************************************************)
(* 4A, word-level metrics aggregated at ID, lines 144-158.                 *)
(***************************************************************************)
\* df_pred[text_col].str.split().apply(len), line 148.  The .str accessor
\* exists only on a column that holds strings; on a column where every
\* field is empty (dtype float64) it raises AttributeError.  On a missing
\* cell among strings split() leaves NaN, and len(NaN) raises TypeError.
TotalWords(col) ==
    IF \A i \in DOMAIN col : col[i].k # "str" THEN Raise("AttributeError")
    ELSE IF \E i \in DOMAIN col : col[i].k # "str" THEN Raise("TypeError")
    ELSE [k |-> "col", v |-> [i \in DOMAIN col |-> Len(Split(col[i]))]]

\* the lambda of lines 149-151 over the text column
TacticWordsCol(col, tactic) ==
    IF \E i \in DOMAIN col : col[i].k # "str" THEN Raise("AttributeError")
    ELSE [k |-> "col", v |-> [i \in DOMAIN col |-> TacticWords(col[i], tactic)]]

RECURSIVE SumAt(_, _, _, _)
\* the sum of col over the rows from i on whose key is key
SumAt(keys, col, key, i) ==
    IF i > Len(col) THEN 0
    ELSE (IF keys[i] = key THEN col[i] ELSE 0) + SumAt(keys, col, key, i + 1)

\* groupby(id_col, dropna=False): a missing key makes a group of its own
GroupKeysKeepNa(keys) == { keys[i] : i \in DOMAIN keys }

\* the keys of df_pred.groupby(id_col): rows with a missing key are dropped
GroupKeys(keys) == { keys[i] : i \in DOMAIN keys } \ {NaN}

\* Series / Series on the summed integer columns, line 154
SeriesDiv(a, b) ==
    IF b = 0 THEN (IF a = 0 THEN NaN ELSE Inf) ELSE Frac(a, b)
\* the division of line 154 without .fillna(0)
FillNaOmitted(x, v) == x

FillNa(x, v) == IF x.k = "nan" THEN v ELSE x
Times(x, c) == IF IsNum(x) THEN FMul(x, Frac(c, 1)) ELSE x

\* lines 152-155: agg[f"{tactic}_pct_words"], by group key
PctWords(df) ==
    [key \in GroupKeys(df["id"]) |->
        Times(FillNa(SeriesDiv(SumAt(df["id"], df["tactic_words"], key, 1),
                               SumAt(df["id"], df["total_words"], key, 1)),
                     Zero), 100)]

\* one iteration of the loop of line 145 on frame df: the frame with the
\* scratch columns overwritten, and the column appended to rows
WordIteration(df, tactic) ==
    LET tw == TotalWords(df["text"]) IN
    IF IsRaise(tw) THEN [k |-> "raise", exc |-> tw.exc, df |-> df] ELSE
    LET df1 == SetCol(df, "total_words", tw.v)
        hw == TacticWordsCol(df1["text"], tactic) IN
    IF IsRaise(hw) THEN [k |-> "raise", exc |-> hw.exc, df |-> df1] ELSE
    LET df2 == SetCol(df1, "tactic_words", hw.v)
    IN  [k |-> "ok", df |-> df2, row |-> PctWords(df2)]

RECURSIVE WordLoop(_, _, _, _)
\* the loop of lines 145-156 from the i-th selected tactic on
WordLoop(df, tactics, i, rows) ==
    IF i > Len(tactics) THEN [k |-> "ok", df |-> df, rows |-> rows]
    ELSE LET it == WordIteration(df, tactics[i])
         IN  IF it.k = "raise" THEN it
             ELSE WordLoop(it.df, tactics, i + 1, Append(rows, it.row))

\* pd.concat(rows, axis=1).reset_index(), line 158: one row per key of any
\* of the frames (an outer join on the index), one column per tactic
Concat(tactics, rows) ==
    LET index == UNION { DOMAIN rows[i] : i \in DOMAIN rows }
    IN  [key \in index |->
            [t \in Range(tactics) |->
                LET i == CHOOSE j \in DOMAIN tactics : tactics[j] = t
                IN  IF key \in DOMAIN rows[i] THEN rows[i][key] ELSE NaN]]

(***************************************************************************)
(* 4B, classification metrics, lines 172-199.                              *)
(***************************************************************************)
\* df_pred[c].apply(lambda lst: tactic in lst), lines 176-181
FlagCol(col, tactic) ==
    IF \E i \in DOMAIN col : InRaises(col[i]) THEN Raise("TypeError")
    ELSE [k |-> "col", v |-> [i \in DOMAIN col |-> In(tactic, col[i])]]

\* the count with the ground-truth condition of lines 183-185 left out
CountFlagsIgnoreTruth(pred, gt, p, g) ==
    Cardinality({ i \in DOMAIN pred : pred[i] = p })

\* int(((pred == p) & (gt == g)).sum()), lines 183-185
CountFlags(pred, gt, p, g) ==
    Cardinality({ i \in DOMAIN pred : pred[i] = p /\ gt[i] = g })

\* lines 187-189
Precision(TP, FP) == IF TP + FP # 0 THEN Frac(TP, TP + FP) ELSE Zero
Recall(TP, FN) == IF TP + FN # 0 THEN Frac(TP, TP + FN) ELSE Zero
F1(precision, recall) ==
    IF Truthy(FAdd(precision, recall))
    THEN FDiv(FMul(FMul(Frac(2, 1), precision), recall), FAdd(precision, recall))
    ELSE Zero

\* lines 183-197: the row appended to metric_rows
MetricRow(df, tactic) ==
    LET TP == CountFlags(df["pred_flag"], df["gt_flag"], TRUE, TRUE)
        FP == CountFlags(df["pred_flag"], df["gt_flag"], TRUE, FALSE)
        FN == CountFlags(df["pred_flag"], df["gt_flag"], FALSE, TRUE)
        precision == Precision(TP, FP)
        recall == Recall(TP, FN)
    IN  [tactic |-> tactic, TP |-> TP, FP |-> FP, FN |-> FN,
         precision |-> precision, recall |-> recall, f1 |-> F1(precision, recall)]

\* the iteration with the scratch column __pred_flag__ computed only when the
\* frame has none yet, so that a later tactic reads the flags of the first
ClassIterationStale(df, tactic) ==
    LET pf == IF "pred_flag" \in DOMAIN df
              THEN [k |-> "col", v |-> df["pred_flag"]]
              ELSE FlagCol(df["pred_list"], tactic) IN
    IF IsRaise(pf) THEN [k |-> "raise", exc |-> pf.exc, df |-> df] ELSE
    LET df1 == SetCol(df, "pred_flag", pf.v)
        gf == FlagCol(df1["gt_list"], tactic) IN
    IF IsRaise(gf) THEN [k |-> "raise", exc |-> gf.exc, df |-> df1] ELSE
    LET df2 == SetCol(df1, "gt_flag", gf.v)
    IN  [k |-> "ok", df |-> df2, row |-> MetricRow(df2, tactic)]

\* one iteration of the loop of line 174
ClassIteration(df, tactic) ==
    LET pf == FlagCol(df["pred_list"], tactic) IN
    IF IsRaise(pf) THEN [k |-> "raise", exc |-> pf.exc, df |-> df] ELSE
    LET df1 == SetCol(df, "pred_flag", pf.v)
        gf == FlagCol(df1["gt_list"], tactic) IN
    IF IsRaise(gf) THEN [k |-> "raise", exc |-> gf.exc, df |-> df1] ELSE
    LET df2 == SetCol(df1, "gt_flag", gf.v)
    IN  [k |-> "ok", df |-> df2, row |-> MetricRow(df2, tactic)]

RECURSIVE ClassLoop(_, _, _, _)
\* the loop of lines 174-197 from the i-th selected tactic on
ClassLoop(df, tactics, i, metric_rows) ==
    IF i > Len(tactics) THEN [k |-> "ok", df |-> df, rows |-> metric_rows]
    ELSE LET it == ClassIteration(df, tactics[i])
         IN  IF it.k = "raise" THEN it
             ELSE ClassLoop(it.df, tactics, i + 1, Append(metric_rows, it.row))

\* pd.DataFrame(metric_rows).set_index("tactic"), line 199
SetIndex(metric_rows) ==
    [t \in { metric_rows[i].tactic : i \in DOMAIN metric_rows } |->
        metric_rows[CHOOSE i \in DOMAIN metric_rows : metric_rows[i].tactic = t]]

Table(rows) == [k |-> "table", rows |-> rows]

(***************************************************************************)
(* What one run of the script leaves behind: how it ended ("idle": to the  *)
(* end without the button; "stopped": st.stop(); "done": the evaluation    *)
(* ran to the end; otherwise the class of the exception that ended it),    *)
(* the messages shown, the working frame, and the two tables handed to     *)
(* st.dataframe / st.download_button (None when not emitted).              *)
(***************************************************************************)
Out(how, msgs, df, idm, mdf) ==
    [outcome |-> how, messages |-> msgs, df_pred |-> df,
     id_metrics |-> idm, metrics_df |-> mdf]

\* 4B, lines 172-215, after 4A has emitted idm
Classification(df, gt_col, tactics, msgs, idm) ==
    IF gt_col # "none"
    THEN LET c == ClassLoop(df, tactics, 1, <<>>)
         IN  IF c.k = "raise" THEN Out(c.exc, msgs, Frame(c.df), idm, None)
             ELSE Out("done", msgs, Frame(c.df), idm, Table(SetIndex(c.rows)))
    ELSE Out("done", msgs \cup {MsgNoGt}, Frame(df), idm, None)

\* the body of `if st.button(...)`, lines 124-215
Evaluation(df, id_col, gt_col, tactics, msgs) ==
    IF tactics = <<>>
    THEN Out("stopped", msgs \cup {MsgSelectTactic}, Frame(df), None, None)
    ELSE
    LET df1 == SetCol(df, "pred_list",
                      [i \in DOMAIN df["pred"] |-> parse_list_cell(df["pred"][i])])
        df2 == IF gt_col # "none"
               THEN SetCol(df1, "gt_list",
                           [i \in DOMAIN df1[gt_col] |-> parse_list_cell(df1[gt_col][i])])
               ELSE df1
    IN  IF id_col # "none"
        THEN LET w == WordLoop(df2, tactics, 1, <<>>)
             IN  IF w.k = "raise" THEN Out(w.exc, msgs, Frame(w.df), None, None)
                 ELSE Classification(w.df, gt_col, tactics, msgs,
                                     Table(Concat(tactics, w.rows)))
        ELSE Classification(df2, gt_col, tactics, msgs \cup {MsgNoId}, None)

\* the whole script, lines 40-217; click = the run was triggered by a
\* click on "Run Evaluation"
Script(pf, id_col, hg, gf, tactics, click) ==
    IF pf = NoFile THEN Out("idle", {MsgUpload}, None, None, None)
    ELSE LET g == GroundTruth(ReadCsv(pf.rows), id_col, hg, gf)
         IN  IF IsRaise(g) THEN Out(g.exc, {}, None, None, None)
             ELSE IF ~click THEN Out("idle", g.msgs, None, None, None)
             ELSE Evaluation(g.df, id_col, g.gt_col, tactics, g.msgs)

(***************************************************************************)
(* The files a user uploads.                                               *)
(***************************************************************************)
\* "hurry now for this exclusive deal"
TextScenario ==
    PyStr(<<"hurry", SP, "now", SP, "for", SP, "this", SP, "exclusive", SP, "deal">>)
\* "now  Now now nowadays sale " : a double blank, a capital, a repeated
\* trigger word, a word that only starts with one, a trailing blank
TextMixed ==
    PyStr(<<"now", SP, SP, "Now", SP, "now", SP, "now", "adays", SP, "sale", SP>>)
\* "  " : blanks only, which read_csv keeps as a string
TextBlank == PyStr(<<SP, SP>>)

\* "['urgency_marketing']"
CellUrgency == PyStr(<<LBr, StrLit("urgency_marketing"), RBr>>)
\* "['social_proof', 'urgency_marketing']"
CellTwo ==
    PyStr(<<LBr, StrLit("social_proof"), Comma, StrLit("urgency_marketing"), RBr>>)
\* "[]"
CellEmpty == PyStr(<<LBr, RBr>>)
\* "N/A"
CellNA == PyStr(<<Ident("N"), Op, Ident("A")>>)
\* "5"
CellFive == PyStr(<<NumLit(5)>>)
\* "'urgency_marketing_v2'" : a quoted string, no list
CellQuoted == PyStr(<<[t |-> "str", s |-> <<"urgency_marketing", "_v2">>]>>)
\* "['discount_marketing'" : the bracket is never closed
CellUnclosed == PyStr(<<LBr, StrLit("discount_marketing")>>)

IdA == PyStr(<<"A">>)
IdB == PyStr(<<"B">>)

Row(id, text, pred, gt) == [id |-> id, text |-> text, pred |-> pred, gt |-> gt]

\* the records of predictions files
PredRows ==
    { Row(IdB, TextScenario, CellUrgency, CellUrgency),
      Row(IdA, TextMixed, CellTwo, CellEmpty),
      Row(IdB, TextBlank, CellNA, CellTwo),
      Row(NaN, TextScenario, CellUrgency, NaN),
      Row(IdB, NaN, CellUnclosed, CellUrgency),
      Row(IdB, TextMixed, CellQuoted, CellFive) }

RECURSIVE SeqsUpTo(_, _)
\* the sequences over S of length 1..n
SeqsUpTo(S, n) ==
    IF n = 0 THEN {}
    ELSE LET shorter == SeqsUpTo(S, n - 1)
         IN  { <<x>> : x \in S } \cup shorter
               \cup { Append(q, x) : q \in { r \in shorter : Len(r) = n - 1 }, x \in S }

PredTables == SeqsUpTo(PredRows, MaxRows)

GtRow(id, label) == [id |-> id, label |-> label]

\* separate ground-truth files: one that leaves B without a label, one
\* that labels A and B, one with two rows for A, one with a missing key
GtTables ==
    { << GtRow(IdA, CellUrgency) >>,
      << GtRow(IdA, CellTwo), GtRow(IdB, CellUrgency) >>,
      << GtRow(IdA, CellUrgency), GtRow(IdA, CellEmpty) >>,
      << GtRow(NaN, CellUrgency), GtRow(IdB, CellEmpty) >> }

(***************************************************************************)
(* The session.                                                            *)
(***************************************************************************)
VARIABLES
    pred_file,        \* the file in the uploader of line 40, or NoFile
    id_col,           \* "none" or "id", lines 56-61
    has_gt,           \* the checkbox of line 77
    gt_file,          \* the file in the uploader of line 85, or NoFile
    tactics_to_eval,  \* the multiselect of line 114, in selection order
    button,           \* the latest run was started by "Run Evaluation"
    out               \* what the latest run of the script left behind

vars == << pred_file, id_col, has_gt, gt_file, tactics_to_eval, button, out >>

\* how the latest run of the script ended
outcome == out.outcome
\* the st.info / st.error messages it showed
messages == out.messages
\* its working frame (None when it built none)
df_pred == out.df_pred
\* the identifier-level table it emitted, or None
id_metrics == out.id_metrics
\* the tactic-level table it emitted, or None
metrics_df == out.metrics_df

\* default=list(DEFAULT_TACTICS.keys())[:1], line 117
DefaultTactics == SubSeq(TacticOptions, 1, 1)

\* A widget the run does not reach is not rendered and loses its value:
\* the ground-truth uploader when the checkbox is ticked or no predictions
\* file is loaded
Rendered(pf, hg, gf) == IF pf = NoFile \/ hg THEN NoFile ELSE gf

\* One run of the script with the widgets at the given values.  The
\* multiselect is not rendered, and loses its value, when the merge raised.
Rerun(pf, idc, hg, gf, tactics, click) ==
    /\ pred_file' = pf
    /\ id_col' = idc
    /\ has_gt' = hg
    /\ gt_file' = Rendered(pf, hg, gf)
    /\ button' = click
    /\ out' = Script(pf, idc, hg, Rendered(pf, hg, gf), tactics, click)
    /\ tactics_to_eval' =
          IF out'.outcome = "MergeError" THEN DefaultTactics ELSE tactics

Init ==
    /\ pred_file = NoFile
    /\ id_col = "none"
    /\ has_gt = FALSE
    /\ gt_file = NoFile
    /\ tactics_to_eval = DefaultTactics
    /\ button = FALSE
    /\ out = Out("idle", {MsgUpload}, None, None, None)

\* the widgets after the merge are on the page
Reached == pred_file # NoFile /\ outcome # "MergeError"

UploadPred ==
    /\ pred_file = NoFile
    /\ \E t \in PredTables :
          Rerun(File(t), "none", FALSE, NoFile, DefaultTactics, FALSE)

RemovePred ==
    /\ pred_file # NoFile
    /\ Rerun(NoFile, "none", FALSE, NoFile, DefaultTactics, FALSE)

SelectIdCol ==
    /\ pred_file # NoFile
    /\ \E c \in {"none", "id"} \ {id_col} :
          Rerun(pred_file, c, has_gt, gt_file, tactics_to_eval, FALSE)

ToggleHasGt ==
    /\ pred_file # NoFile
    /\ Rerun(pred_file, id_col, ~has_gt, gt_file, tactics_to_eval, FALSE)

UploadGt ==
    /\ pred_file # NoFile
    /\ ~has_gt
    /\ gt_file = NoFile
    /\ \E g \in GtTables :
          Rerun(pred_file, id_col, has_gt, File(g), tactics_to_eval, FALSE)

RemoveGt ==
    /\ pred_file # NoFile
    /\ gt_file # NoFile
    /\ Rerun(pred_file, id_col, has_gt, NoFile, tactics_to_eval, FALSE)

SelectTactic ==
    /\ Reached
    /\ Len(tactics_to_eval) < MaxSel
    /\ \E t \in Tactics \ Range(tactics_to_eval) :
          Rerun(pred_file, id_col, has_gt, gt_file, Append(tactics_to_eval, t), FALSE)

DeselectTactic ==
    /\ Reached
    /\ \E i \in DOMAIN tactics_to_eval :
          Rerun(pred_file, id_col, has_gt, gt_file,
                SubSeq(tactics_to_eval, 1, i - 1)
                  \o SubSeq(tactics_to_eval, i + 1, Len(tactics_to_eval)),
                FALSE)

RunEvaluation ==
    /\ Reached
    /\ Rerun(pred_file, id_col, has_gt, gt_file, tactics_to_eval, TRUE)

Next ==
    \/ UploadPred
    \/ RemovePred
    \/ SelectIdCol
    \/ ToggleHasGt
    \/ UploadGt
    \/ RemoveGt
    \/ SelectTactic
    \/ DeselectTactic
    \/ RunEvaluation

Spec == Init /\ [][Next]_vars

(***************************************************************************)
(* Vocabulary of the properties.                                           *)
(***************************************************************************)
Emitted(table) == table.k = "table"
\* the latest run evaluated: it was started by the button with a tactic selected
Evaluated == button /\ tactics_to_eval # <<>>
Selected == Range(tactics_to_eval)
Records == pred_file.rows
\* the parsed label columns of the working frame
PredList == df_pred.cols["pred_list"]
TrueList == df_pred.cols["gt_list"]

\* a whitespace-delimited token of s starts / ends at piece i
TokenStart(s, i) == s[i] # SP /\ (i = 1 \/ s[i - 1] = SP)
TokenEnd(s, i) == s[i] # SP /\ (i = Len(s) \/ s[i + 1] = SP)
\* the token occurrences <<record, piece>> of the records whose identifier is
\* key; a text that is no string has none
TokensOf(key) ==
    UNION { { <<i, j>> : j \in { p \in DOMAIN Records[i].text.s :
                                   TokenStart(Records[i].text.s, p) } } :
            i \in { r \in DOMAIN Records :
                      Records[r].id = key /\ Records[r].text.k = "str" } }
\* those that are exactly one of the tactic's trigger words
HitsOf(key, tactic) ==
    { o \in TokensOf(key) :
        /\ TokenEnd(Records[o[1]].text.s, o[2])
        /\ \E w \in DOMAIN DEFAULT_TACTICS[tactic] :
              DEFAULT_TACTICS[tactic][w] = Records[o[1]].text.s[o[2]] }
\* 100 * hits / total, 0 when total = 0
PctOf(key, tactic) ==
    IF Cardinality(TokensOf(key)) = 0 THEN Zero
    ELSE Frac(100 * Cardinality(HitsOf(key, tactic)), Cardinality(TokensOf(key)))
\* the identifier values of the records
Identifiers == { Records[i].id : i \in DOMAIN Records } \ {NaN}

(***************************************************************************)
(* C1.  With a separate ground-truth file merged on the identifier, a      *)
(* record whose identifier has no row in that file adds to none of TP, FP  *)
(* and FN of any selected tactic (the counts are taken over the matched    *)
(* records only), while it is still counted in the word-hit aggregation of *)
(* its identifier.                                                         *)
(***************************************************************************)
Matched ==
    { i \in DOMAIN Records :
        \E j \in DOMAIN gt_file.rows : gt_file.rows[j].id = Records[i].id }

MatchedCount(t, p, g) ==
    Cardinality({ i \in Matched : In(t, PredList[i]) = p /\ In(t, TrueList[i]) = g })

C1_UnmatchedExcluded ==
    (gt_file # NoFile /\ Emitted(metrics_df)) =>
        /\ \A t \in Selected :
              /\ metrics_df.rows[t].TP = MatchedCount(t, TRUE, TRUE)
              /\ metrics_df.rows[t].FP = MatchedCount(t, TRUE, FALSE)
              /\ metrics_df.rows[t].FN = MatchedCount(t, FALSE, TRUE)
        /\ Emitted(id_metrics) =>
              \A key \in Identifiers : \A t \in Selected :
                  id_metrics.rows[key][t] = PctOf(key, t)

(***************************************************************************)
(* C2.  Every parsed label cell is a list (a cell that is no list literal  *)
(* parses to the empty list), so the membership test never faults: an      *)
(* evaluation without identifier column, which does not touch the text,    *)
(* never ends in a TypeError.                                              *)
(***************************************************************************)
ParsedCells ==
    IF df_pred = None THEN {}
    ELSE UNION { Range(df_pred.cols[c]) :
                 c \in {"pred_list", "gt_list"} \cap DOMAIN df_pred.cols }

C2_ParserYieldsList ==
    /\ \A x \in ParsedCells : x.k = "list"
    /\ (Evaluated /\ id_col = "none") => outcome # "TypeError"

(***************************************************************************)
(* C3.  A record whose text cell is no string has no tokens: an evaluation *)
(* with identifier column emits the identifier-level table, in which such  *)
(* a record adds 0 to the total and to the hits of its identifier.         *)
(***************************************************************************)
C3_NullTextHasNoTokens ==
    (Evaluated /\ id_col = "id") =>
        /\ Emitted(id_metrics)
        /\ \A key \in Identifiers : \A t \in Selected :
              id_metrics.rows[key][t] = PctOf(key, t)

(***************************************************************************)
(* C4.  In the tactic-level table TP, FP and FN of a tactic count the      *)
(* records by pred_flag and true_flag, the tactic being an element of the  *)
(* parsed predicted, resp. true, list; precision = TP/(TP+FP), recall =    *)
(* TP/(TP+FN), F1 = 2pr/(p+r) = 2TP/(2TP+FP+FN), each 0 when its           *)
(* denominator is 0; TP=3, FP=1, FN=2 gives 3/4, 3/5 and 2/3.              *)
(***************************************************************************)
ElementOf(t, parsed) ==
    parsed.k = "list" /\ \E i \in DOMAIN parsed.v : parsed.v[i] = Name(t)

ElementCount(t, p, g) ==
    Cardinality({ i \in DOMAIN Records :
                    ElementOf(t, PredList[i]) = p /\ ElementOf(t, TrueList[i]) = g })

Ratio(a, b) == IF b = 0 THEN Zero ELSE Frac(a, b)

C4_ConfusionCounts ==
    /\ Precision(3, 1) = Frac(3, 4)
    /\ Recall(3, 2) = Frac(3, 5)
    /\ F1(Frac(3, 4), Frac(3, 5)) = Frac(2, 3)
    /\ Emitted(metrics_df) =>
          \A t \in Selected :
              LET m == metrics_df.rows[t]
              IN  /\ m.TP = ElementCount(t, TRUE, TRUE)
                  /\ m.FP = ElementCount(t, TRUE, FALSE)
                  /\ m.FN = ElementCount(t, FALSE, TRUE)
                  /\ m.precision = Ratio(m.TP, m.TP + m.FP)
                  /\ m.recall = Ratio(m.TP, m.TP + m.FN)
                  /\ m.f1 = Ratio(2 * m.TP, 2 * m.TP + m.FP + m.FN)

(***************************************************************************)
(* C5.  Whenever the identifier-level table is emitted it has, for every   *)
(* identifier value and every selected tactic, pct = 100 * hits / total,   *)
(* where total is the number of whitespace-delimited tokens of all records *)
(* of that identifier and hits the number of those token occurrences that  *)
(* are exactly a trigger word of the tactic; pct = 0 when total = 0.       *)
(***************************************************************************)
C5_WordHitAggregation ==
    Emitted(id_metrics) =>
        \A key \in Identifiers : \A t \in Selected :
            /\ key \in DOMAIN id_metrics.rows
            /\ id_metrics.rows[key][t] = PctOf(key, t)

\* two records of one identifier with different token counts, one of them
\* with a repeated trigger word, and a percentage strictly between 0 and 100
C5_Witness ==
    /\ Emitted(id_metrics)
    /\ \E i, j \in DOMAIN Records : \E t \in Selected :
          /\ i # j
          /\ Records[i].id = Records[j].id
          /\ Records[i].id # NaN
          /\ Records[i].text = TextScenario
          /\ Records[j].text = TextMixed
          /\ id_metrics.rows[Records[i].id][t] = Frac(500, 11)

(***************************************************************************)
(* C6.  The emitted results are in range: TP + FP + FN is at most the      *)
(* number of records, precision, recall and F1 are in [0, 1], and every    *)
(* percentage is a number in [0, 100].                                     *)
(***************************************************************************)
One == Frac(1, 1)
InUnit(x) == IsNum(x) /\ FLe(Zero, x) /\ FLe(x, One)

C6_ResultsInRange ==
    /\ Emitted(metrics_df) =>
          \A t \in DOMAIN metrics_df.rows :
              LET m == metrics_df.rows[t]
              IN  /\ m.TP >= 0 /\ m.FP >= 0 /\ m.FN >= 0
                  /\ m.TP + m.FP + m.FN <= Len(Records)
                  /\ InUnit(m.precision) /\ InUnit(m.recall) /\ InUnit(m.f1)
    /\ Emitted(id_metrics) =>
          \A key \in DOMAIN id_metrics.rows : \A t \in DOMAIN id_metrics.rows[key] :
              LET pct == id_metrics.rows[key][t]
              IN  IsNum(pct) /\ FLe(Zero, pct) /\ FLe(pct, Frac(100, 1))

\* both tables emitted, every record counted once, precision and recall
\* strictly inside (0, 1)
C6_Witness ==
    /\ Emitted(metrics_df)
    /\ Emitted(id_metrics)
    /\ \E t \in DOMAIN metrics_df.rows :
          LET m == metrics_df.rows[t]
          IN  /\ m.TP + m.FP + m.FN = Len(Records)
              /\ m.TP > 0 /\ m.FP > 0
              /\ m.precision = Frac(1, 2)

(***************************************************************************)
(* C7.  While the separate ground-truth file holds an identifier value in  *)
(* two or more rows, no table of either family is emitted; with the        *)
(* identifier column designated the run ends in the merge with MergeError, *)
(* before any step of the evaluation (no working frame, no button run).    *)
(***************************************************************************)
HasDuplicateKeys(rows) ==
    \E i, j \in DOMAIN rows : i # j /\ rows[i].id = rows[j].id

C7_DuplicateKeysRejected ==
    (gt_file # NoFile /\ HasDuplicateKeys(gt_file.rows)) =>
        /\ ~Emitted(id_metrics)
        /\ ~Emitted(metrics_df)
        /\ id_col = "id" => (outcome = "MergeError" /\ df_pred = None /\ ~button)

C7_Witness ==
    /\ gt_file # NoFile
    /\ HasDuplicateKeys(gt_file.rows)
    /\ id_col = "id"
    /\ outcome = "MergeError"

NoContainer(x) == x.k \notin {"list", "str"}

FlagCount(t, p, g) ==
    Cardinality({ i \in DOMAIN Records :
                    In(t, PredList[i]) = p /\ In(t, TrueList[i]) = g })

C9_MissingIdentifier ==
    /\ Emitted(id_metrics) => DOMAIN id_metrics.rows = Identifiers
    /\ Emitted(metrics_df) =>
          \A t \in Selected :
              /\ metrics_df.rows[t].TP = FlagCount(t, TRUE, TRUE)
              /\ metrics_df.rows[t].FP = FlagCount(t, TRUE, FALSE)
              /\ metrics_df.rows[t].FN = FlagCount(t, FALSE, TRUE)

\* both tables emitted from a file with a record without identifier that
\* predicts a selected tactic, next to a record with an identifier
C9_Witness ==
    /\ Emitted(id_metrics)
    /\ Emitted(metrics_df)
    /\ id_metrics.rows # <<>>
    /\ \E i \in DOMAIN Records : \E t \in Selected :
          /\ Records[i].id = NaN
          /\ In(t, PredList[i])
          /\ metrics_df.rows[t].TP + metrics_df.rows[t].FP >= 1

(***************************************************************************)
(* C10.  Each selected tactic gets the results it gets when it is selected *)
(* alone: the same end of the run, the same percentage for every           *)
(* identifier, the same row of the tactic-level table; and the             *)
(* identifier-level table has one row per identifier with a number in the  *)
(* column of every selected tactic.                                        *)
(***************************************************************************)
Alone(t) == Script(pred_file, id_col, has_gt, gt_file, <<t>>, TRUE)

SameAsAlone(t, solo) ==
    /\ outcome = solo.outcome
    /\ Emitted(id_metrics) <=> Emitted(solo.id_metrics)
    /\ Emitted(id_metrics) =>
          /\ DOMAIN id_metrics.rows = DOMAIN solo.id_metrics.rows
          /\ \A key \in DOMAIN id_metrics.rows :
                id_metrics.rows[key][t] = solo.id_metrics.rows[key][t]
    /\ Emitted(metrics_df) <=> Emitted(solo.metrics_df)
    /\ Emitted(metrics_df) => metrics_df.rows[t] = solo.metrics_df.rows[t]

C10_TacticsIndependent ==
    Evaluated =>
        /\ \A t \in Selected : SameAsAlone(t, Alone(t))
        /\ Emitted(id_metrics) =>
              /\ DOMAIN id_metrics.rows = Identifiers
              /\ \A key \in Identifiers :
                    /\ DOMAIN id_metrics.rows[key] = Selected
                    /\ \A t \in Selected : IsNum(id_metrics.rows[key][t])
        /\ Emitted(metrics_df) => DOMAIN metrics_df.rows = Selected

\* two tactics, both tables emitted, different counts and different
\* percentages for the two
C10_Witness ==
    /\ Evaluated
    /\ Len(tactics_to_eval) = 2
    /\ Emitted(id_metrics)
    /\ Emitted(metrics_df)
    /\ metrics_df.rows[tactics_to_eval[1]].TP # metrics_df.rows[tactics_to_eval[2]].TP
    /\ metrics_df.rows[tactics_to_eval[1]].FN # metrics_df.rows[tactics_to_eval[2]].FN
    /\ \E key \in DOMAIN id_metrics.rows :
          id_metrics.rows[key][tactics_to_eval[1]] # id_metrics.rows[key][tactics_to_eval[2]]

==========================================================================
